---- MODULE Spec2Model ----
(***************************************************************************)
(* The rotary_embedding operator of vllm-ascend: the host-side binding of  *)
(* csrc/torch_binding.cpp (vendor NPU backend, command-queue submission)   *)
(* and of the generic parallel backend (grid/block launch), together with  *)
(* the device kernel they launch.  Floating-point values are modelled as   *)
(* exact integers; cos and sin range over {-1, 0, 1}.                      *)
(***************************************************************************)
EXTENDS Integers, Sequences, FiniteSets

VARIABLES
    backend,        \* "cuda" (generic grid/block launch) or "npu" (OpCommand)
    positions,      \* sequence of position ids, one per token
    query,          \* tensor [size0, size1, stride0, data]; data is the flat storage
    key,            \* tensor [size0, size1, stride0, data]
    head_size,
    cos_sin_cache,  \* tensor [size0 = max_position, size1 = rot_dim, data]
    is_neox,
    scalar_type,    \* query.scalar_type()
    pc,             \* the caller's position: "idle", "returned", "failed"
    dev,            \* the device side: "idle", "queued", "running", "done",
                    \* "rejected", "crashed", "nolaunch", "fault"
    kargs,          \* the arguments the kernel was launched with
    units,          \* the parallel work units of the launched kernel
    submitted,      \* how often this call put work on the stream / task queue
    call_no,        \* 1: the call, 2: the caller's second call (inverse angles)
    pre,            \* ghost: buffers, cache, positions when the current call started
    orig            \* ghost: buffers when the first call started

vars == <<backend, positions, query, key, head_size, cos_sin_cache, is_neox,
          scalar_type, pc, dev, kargs, units, submitted, call_no, pre, orig>>

inputs == <<backend, positions, head_size, is_neox, scalar_type>>

----------------------------------------------------------------------------
(* Bounds of the model. *)

MaxTokens == 3      \* rows of query / key
MaxItems == 6       \* rotation pairs (query and key together) of one call
MaxPos == 2         \* rows of the cos/sin cache
MaxCores == 2       \* "aiv" cores the platform reports
MaxArb == 1         \* magnitude of a value read outside a tensor's storage

(* min(num_heads * rot_dim / 2, 512) *)
MaxThreads == 512

Min(a, b) == IF a < b THEN a ELSE b

----------------------------------------------------------------------------
(* The inputs a caller passes. *)

\* [qw, kw]: last dimension of query and key; hs: head_size; rd: rot_dim.
ValidShapes ==
    { [qw |-> 2, kw |-> 2, hs |-> 2, rd |-> 2],
      [qw |-> 4, kw |-> 2, hs |-> 2, rd |-> 2],
      [qw |-> 4, kw |-> 4, hs |-> 4, rd |-> 2],
      [qw |-> 4, kw |-> 4, hs |-> 4, rd |-> 4] }

InvalidShapes ==
    { [qw |-> 3, kw |-> 2, hs |-> 2, rd |-> 2],     \* head_size does not divide query
      [qw |-> 2, kw |-> 3, hs |-> 2, rd |-> 2],     \* head_size does not divide key
      [qw |-> 4, kw |-> 4, hs |-> 4, rd |-> 3],     \* rot_dim odd
      [qw |-> 2, kw |-> 2, hs |-> 2, rd |-> 4] }    \* rot_dim > head_size

Shapes == ValidShapes \cup InvalidShapes

FloatingTypes == {"Float", "Half", "BFloat16"}
ScalarTypes == {"Float", "Long"}

\* (cos, sin) pairs: four rotations by multiples of 90 degrees, then the
\* other combinations of {-1, 0, 1}.
CosSin ==
    << <<1, 0>>, <<0, 1>>, <<-1, 0>>, <<0, -1>>,
       <<1, 1>>, <<0, 0>>, <<-1, 1>>, <<1, -1>>, <<-1, -1>> >>

\* <<base, di, m>>: pair i of row p holds entry (base + 2 p + di i) mod m of
\* CosSin, counted from 0; with m = 4 every entry is a rotation.
CacheSeeds == {<<0, 1, 4>>, <<1, 0, 4>>, <<4, 1, 9>>, <<5, 1, 9>>}

\* Row p of the cache: cos of pair i at column i, sin at column rd/2 + i.
CacheEntry(seed, rd, p, j) ==
    LET e == IF rd \div 2 = 0 THEN 1 ELSE rd \div 2
        i == j % e
        cs == CosSin[((seed[1] + 2 * p + seed[2] * i) % seed[3]) + 1]
    IN  IF j < e THEN cs[1] ELSE cs[2]

MkCache(seed, rd) ==
    [size0 |-> MaxPos, size1 |-> rd,
     data |-> [k \in 1..(MaxPos * rd) |->
                 CacheEntry(seed, rd, (k - 1) \div rd, (k - 1) % rd)]]

\* Contents: "ramp" is 1, 2, 3, ... (all distinct), "alt" is 1, 0, 1, 0, ...
Val(seed, k) == IF seed = "ramp" THEN k + 1 ELSE (k + 1) % 2

\* A [rows, width] tensor whose rows are `stride` apart in its storage.
MkTensor(rows, width, stride, seed) ==
    [size0 |-> rows, size1 |-> width, stride0 |-> stride,
     data |-> [k \in 1..(rows * stride) |-> Val(seed, k - 1)]]

PosSeq(a, b, n) == [t \in 1..n |-> (a + b * (t - 1)) % MaxPos]

NoArgs ==
    [is_neox |-> FALSE, query_dst |-> "query", key_dst |-> "key",
     query |-> "query", key |-> "key", rot_dim |-> 0,
     query_stride |-> 0, key_stride |-> 0,
     dst_query_stride |-> 0, dst_key_stride |-> 0,
     num_heads |-> 0, num_kv_heads |-> 0, head_size |-> 0, num_tokens |-> 0,
     loop_cnt |-> 0, aivNum |-> 0, grid |-> 0, block |-> 0]

Init ==
    /\ backend \in {"cuda", "npu"}
    /\ is_neox \in BOOLEAN
    /\ scalar_type \in ScalarTypes
    /\ \E sh \in Shapes, n \in 0..MaxTokens, pad \in 0..1,
          a \in 0..(MaxPos - 1), b \in 0..1,
          cseed \in CacheSeeds :
          /\ n * ((sh.qw \div sh.hs) + (sh.kw \div sh.hs)) * (sh.rd \div 2) <= MaxItems
          /\ (n <= 1) => (b = 0)
          /\ (n = 0) => (a = 0 /\ pad = 0)
          \* a call that ought to be rejected needs no variety of contents
          /\ (sh \in InvalidShapes) => (cseed = <<0, 1, 4>> /\ b = 0)
          /\ head_size = sh.hs
          /\ positions = PosSeq(a, b, n)
          /\ query = MkTensor(n, sh.qw, sh.qw + pad, "ramp")
          /\ key = MkTensor(n, sh.kw, sh.kw + pad, "alt")
          /\ cos_sin_cache = MkCache(cseed, sh.rd)
    /\ pc = "idle"
    /\ dev = "idle"
    /\ kargs = NoArgs
    /\ units = <<>>
    /\ submitted = 0
    /\ call_no = 1
    /\ pre = [query |-> query.data, key |-> key.data,
              cache |-> cos_sin_cache.data, positions |-> positions]
    /\ orig = [query |-> query.data, key |-> key.data]

----------------------------------------------------------------------------
(* Shape/stride resolution, as both backends compute it (no check is made). *)

Numel(t) == t.size0 * t.size1

NumTokens == Numel(query) \div query.size1

\* Faulty variant: the cache's other dimension, size(0).
RotDim_rows == cos_sin_cache.size0

RotDim == cos_sin_cache.size1

NumHeads == query.size1 \div head_size

NumKvHeads == key.size1 \div head_size

\* Faulty variant: the row width in place of the row stride.
QueryStride_width == query.size1

\* Faulty variant: head_size passed where the row stride belongs.
QueryStride_head == head_size

QueryStride == query.stride0

\* Faulty variant: the query's stride passed for the key.
KeyStride_as_query == query.stride0

KeyStride == key.stride0

\* dim3 grid(num_tokens)
Grid == NumTokens

\* dim3 block(std::min<int64_t>(num_heads * rot_dim / 2, 512))
Block == Min((NumHeads * RotDim) \div 2, MaxThreads)

\* VLLM_DISPATCH_FLOATING_TYPES: any other scalar type raises before the launch.
DispatchFloating(t) == t \in FloatingTypes

\* Faulty variant: the two branches of if (is_neox) exchanged.
KernelVariant_swapped == IF is_neox THEN FALSE ELSE TRUE

\* The template argument IS_NEOX chosen by the if (is_neox) branch.
KernelVariant == IF is_neox THEN TRUE ELSE FALSE

\* Faulty variant: the flag dropped, the kernel always run in neox style.
NpuVariant_neox_only == TRUE

\* The flag the NPU handler passes on.
NpuVariant == is_neox

\* Faulty variant: the quotient rounded down.
LoopCnt_floor(num_tokens, aivNum) == num_tokens \div aivNum

\* uint32_t loop_cnt = (num_tokens + aivNum - 1) / aivNum, with num_tokens
\* an int64_t and aivNum a uint32_t >= 1: the sum and the quotient are int64_t,
\* and the quotient is then narrowed to 32 bits.  Every quotient the model
\* reaches is far below 2^32, where the narrowing changes nothing.
LoopCnt(num_tokens, aivNum) ==
    (num_tokens + aivNum - 1) \div aivNum

CudaKernelArgs ==
    [is_neox |-> KernelVariant,
     query_dst |-> "query", key_dst |-> "key", query |-> "query", key |-> "key",
     rot_dim |-> RotDim,
     query_stride |-> QueryStride, key_stride |-> KeyStride,
     dst_query_stride |-> QueryStride, dst_key_stride |-> KeyStride,
     num_heads |-> NumHeads, num_kv_heads |-> NumKvHeads, head_size |-> head_size,
     num_tokens |-> Grid, loop_cnt |-> 0, aivNum |-> 0,
     grid |-> Grid, block |-> Block]

\* What the lambda captures, in the order rotary_embedding_kernel receives it:
\* (query_ptr, key_ptr, query_ptr, key_ptr, ..., query_stride, key_stride,
\*  query_stride, key_stride, ...): destination and source are the same buffers.
NpuKernelArgs ==
    [is_neox |-> NpuVariant,
     query_dst |-> "query", key_dst |-> "key", query |-> "query", key |-> "key",
     rot_dim |-> RotDim,
     query_stride |-> QueryStride, key_stride |-> KeyStride,
     dst_query_stride |-> QueryStride, dst_key_stride |-> KeyStride,
     num_heads |-> NumHeads, num_kv_heads |-> NumKvHeads, head_size |-> head_size,
     num_tokens |-> NumTokens, loop_cnt |-> 0, aivNum |-> 0,
     grid |-> 0, block |-> 0]

\* get_dtype_from_torch: the scalar types the kernel is built for.
get_dtype_from_torch(t) == t \in FloatingTypes

----------------------------------------------------------------------------
(* The device kernel.  A work item is one rotation pair of one head of one  *)
(* token; a unit runs its items one after another, loading the pair and the *)
(* cos/sin values first and storing the rotated pair afterwards.            *)

Item(k, which, t, i) ==
    LET e == k.rot_dim \div 2
        h == i \div e
        r == i % e
        xi == IF k.is_neox THEN r ELSE 2 * r
        yi == IF k.is_neox THEN e + r ELSE 2 * r + 1
        ss == IF which = "query" THEN k.query_stride ELSE k.key_stride
        ds == IF which = "query" THEN k.dst_query_stride ELSE k.dst_key_stride
        row == positions[t + 1] * k.rot_dim
    IN  [tok |-> t,
         src |-> IF which = "query" THEN k.query ELSE k.key,
         dst |-> IF which = "query" THEN k.query_dst ELSE k.key_dst,
         xs |-> t * ss + h * k.head_size + xi,
         ys |-> t * ss + h * k.head_size + yi,
         xd |-> t * ds + h * k.head_size + xi,
         yd |-> t * ds + h * k.head_size + yi,
         c |-> row + r,
         s |-> row + e + r]

\* Number of i in {first, first + step, ...} below n.
Strided(first, step, n) ==
    IF first >= n THEN 0 ELSE (n - first + step - 1) \div step

\* One lane of a token's block: for (i = lane; i < nq; i += block) over the
\* query pairs, then the same loop over the key pairs.
LaneProgram(k, t, lane) ==
    LET e == k.rot_dim \div 2
        nq == k.num_heads * e
        nk == k.num_kv_heads * e
    IN  [m \in 1..Strided(lane, k.block, nq) |->
            Item(k, "query", t, lane + (m - 1) * k.block)]
        \o
        [m \in 1..Strided(lane, k.block, nk) |->
            Item(k, "key", t, lane + (m - 1) * k.block)]

\* One token on a core: all query pairs, then all key pairs.
TokenItem(k, t, w) ==
    LET nq == k.num_heads * (k.rot_dim \div 2)
    IN  IF w < nq THEN Item(k, "query", t, w) ELSE Item(k, "key", t, w - nq)

\* Iteration j of core c works on this token, when it is below num_tokens.
SlotToken(k, c, j) == j * k.aivNum + c

CoreSlots(k, c) == { j \in 0..(k.loop_cnt - 1) : SlotToken(k, c, j) < k.num_tokens }

\* The slots {0 .. n-1} of a core are those below num_tokens: SlotToken grows with j.
CoreProgram(k, c) ==
    LET e == k.rot_dim \div 2
        per == (k.num_heads + k.num_kv_heads) * e
        n == Cardinality(CoreSlots(k, c))
    IN  [f \in 1..(n * per) |->
            TokenItem(k, SlotToken(k, c, (f - 1) \div per), (f - 1) % per)]

\* The programs of the launched units: grid * block lanes, or aivNum cores.
Programs(k, be) ==
    IF be = "cuda"
    THEN [u \in 1..(k.grid * k.block) |->
            LaneProgram(k, (u - 1) \div k.block, (u - 1) % k.block)]
    ELSE [u \in 1..k.aivNum |-> CoreProgram(k, u - 1)]

NewUnit(prog) == [todo |-> prog, ph |-> "load", x |-> 0, y |-> 0, cs |-> 0, sn |-> 0]

Launch(k, be) == [u \in DOMAIN Programs(k, be) |-> NewUnit(Programs(k, be)[u])]

\* A read inside the storage returns the element; one outside it returns
\* whatever lies there.
Arb == (0 - MaxArb)..MaxArb

InBounds(data, idx) == idx >= 0 /\ idx < Len(data)

ReadSet(data, idx) == IF InBounds(data, idx) THEN {data[idx + 1]} ELSE Arb

\* A write outside the storage does not reach the tensor.
Write(data, idx, v) == IF InBounds(data, idx) THEN [data EXCEPT ![idx + 1] = v] ELSE data

Buf(name) == IF name = "query" THEN query.data ELSE key.data

ItemInBounds(it) ==
    /\ InBounds(Buf(it.src), it.xs) /\ InBounds(Buf(it.src), it.ys)
    /\ InBounds(Buf(it.dst), it.xd) /\ InBounds(Buf(it.dst), it.yd)
    /\ InBounds(cos_sin_cache.data, it.c) /\ InBounds(cos_sin_cache.data, it.s)

\* x = arr[x_index]; y = arr[y_index]; cos and sin from the token's cache row.
Load(u) ==
    /\ dev = "running"
    /\ u \in DOMAIN units
    /\ units[u].todo # <<>>
    /\ units[u].ph = "load"
    /\ LET it == Head(units[u].todo)
       IN  \/ \E vx \in ReadSet(Buf(it.src), it.xs), vy \in ReadSet(Buf(it.src), it.ys),
                 vc \in ReadSet(cos_sin_cache.data, it.c),
                 vs \in ReadSet(cos_sin_cache.data, it.s) :
                 /\ units' = [units EXCEPT ![u] =
                                [@ EXCEPT !.ph = "store", !.x = vx, !.y = vy,
                                          !.cs = vc, !.sn = vs]]
                 /\ dev' = dev
           \/ /\ ~ItemInBounds(it)          \* the access faults instead
              /\ dev' = "fault"
              /\ units' = units
    /\ UNCHANGED <<inputs, query, key, cos_sin_cache, pc, kargs, submitted,
                   call_no, pre, orig>>

\* arr[x_index] = x * cos - y * sin; arr[y_index] = y * cos + x * sin
Store(u) ==
    /\ dev = "running"
    /\ u \in DOMAIN units
    /\ units[u].todo # <<>>
    /\ units[u].ph = "store"
    /\ LET it == Head(units[u].todo)
           r == units[u]
           nx == r.x * r.cs - r.y * r.sn
           ny == r.y * r.cs + r.x * r.sn
           out(name, data) ==
               IF it.dst = name THEN Write(Write(data, it.xd, nx), it.yd, ny) ELSE data
       IN  /\ query' = [query EXCEPT !.data = out("query", @)]
           /\ key' = [key EXCEPT !.data = out("key", @)]
           /\ units' = [units EXCEPT ![u] = [@ EXCEPT !.ph = "load", !.todo = Tail(@)]]
    /\ UNCHANGED <<inputs, cos_sin_cache, pc, dev, kargs, submitted, call_no, pre, orig>>

\* The kernel is complete once every unit has run its program.
KernelComplete ==
    /\ dev = "running"
    /\ \A u \in DOMAIN units : units[u].todo = <<>>
    /\ dev' = "done"
    /\ UNCHANGED <<inputs, query, key, cos_sin_cache, pc, kargs, units, submitted,
                   call_no, pre, orig>>

----------------------------------------------------------------------------
(* The host side. *)

\* Generic backend: resolve the shape, dispatch on the scalar type, launch
\* <<<grid, block, 0, stream>>> and return.
rotary_embedding ==
    /\ backend = "cuda"
    /\ pc = "idle"
    /\ \/ /\ pc' = "failed"                  \* no current stream / device guard
          /\ UNCHANGED <<dev, kargs, units, submitted>>
       \/ /\ ~DispatchFloating(scalar_type)
          /\ pc' = "failed"
          /\ UNCHANGED <<dev, kargs, units, submitted>>
       \/ /\ DispatchFloating(scalar_type)
          /\ kargs' = CudaKernelArgs
          /\ IF Grid = 0 \/ Block = 0
             THEN /\ dev' = "nolaunch"        \* an empty grid or block is not run
                  /\ units' = <<>>
                  /\ submitted' = submitted
             ELSE /\ dev' = "running"
                  /\ units' = Launch(CudaKernelArgs, "cuda")
                  /\ submitted' = submitted + 1
          /\ pc' = "returned"
    /\ UNCHANGED <<inputs, query, key, cos_sin_cache, call_no, pre, orig>>

\* NPU backend: resolve the shape, capture it in the custom handler, and
\* cmd.Run() puts the handler on the task queue of the current stream.
vllm_ascend_rotary_embedding ==
    /\ backend = "npu"
    /\ pc = "idle"
    /\ \/ /\ pc' = "failed"                  \* getCurrentNPUStream() raises
          /\ UNCHANGED <<dev, kargs, units, submitted>>
       \/ /\ kargs' = NpuKernelArgs
          /\ dev' = "queued"
          /\ submitted' = submitted + 1
          /\ pc' = "returned"
          /\ units' = units
    /\ UNCHANGED <<inputs, query, key, cos_sin_cache, call_no, pre, orig>>

\* The handler: dtype lookup, platform query (its status is not looked at),
\* core count, loop count, kernel launch, return 0.  aivNum = 0 is what the
\* platform information holds when the query did not fill it; the division
\* by it is then undefined: the handler traps, or goes on with some quotient
\* and launches on zero cores.
CustomHandler ==
    /\ dev = "queued"
    /\ \/ /\ ~get_dtype_from_torch(scalar_type)
          /\ dev' = "rejected"
          /\ UNCHANGED <<kargs, units>>
       \/ /\ get_dtype_from_torch(scalar_type)
          /\ \E aivNum \in 0..MaxCores :
                IF aivNum = 0
                THEN \/ /\ dev' = "crashed"
                        /\ UNCHANGED <<kargs, units>>
                     \/ \E q \in 0..1 :
                           /\ kargs' = [kargs EXCEPT !.loop_cnt = q, !.aivNum = 0]
                           /\ dev' = "nolaunch"
                           /\ units' = units
                ELSE LET k == [kargs EXCEPT
                                   !.loop_cnt = LoopCnt(kargs.num_tokens, aivNum),
                                   !.aivNum = aivNum]
                     IN  /\ kargs' = k
                         /\ units' = Launch(k, "npu")
                         /\ dev' = "running"
    /\ UNCHANGED <<inputs, query, key, cos_sin_cache, pc, submitted, call_no, pre, orig>>

\* The caller, after synchronising with the stream, calls again on the result
\* with the cache rows holding (cos, -sin).
NegSin(cache) ==
    [cache EXCEPT !.data =
        [k \in DOMAIN @ |->
            IF (k - 1) % cache.size1 >= cache.size1 \div 2 THEN 0 - @[k] ELSE @[k]]]

\* Every (cos, sin) of the cache is a rotation by a multiple of 90 degrees.
UnitCache ==
    LET rd == cos_sin_cache.size1
        e == rd \div 2
    IN  /\ rd % 2 = 0
        /\ \A p \in 0..(cos_sin_cache.size0 - 1), i \in 0..(e - 1) :
              <<cos_sin_cache.data[p * rd + i + 1],
                cos_sin_cache.data[p * rd + e + i + 1]>>
                  \in {<<1, 0>>, <<0, 1>>, <<-1, 0>>, <<0, -1>>}

CallInverse ==
    /\ call_no = 1
    /\ UnitCache
    /\ pc = "returned"
    /\ dev = "done"
    /\ call_no' = 2
    /\ cos_sin_cache' = NegSin(cos_sin_cache)
    /\ pre' = [query |-> query.data, key |-> key.data,
               cache |-> NegSin(cos_sin_cache).data, positions |-> positions]
    /\ pc' = "idle"
    /\ dev' = "idle"
    /\ kargs' = NoArgs
    /\ units' = <<>>
    /\ submitted' = 0
    /\ UNCHANGED <<inputs, query, key, orig>>

Step == \E u \in DOMAIN units : Load(u) \/ Store(u)

Next ==
    \/ rotary_embedding
    \/ vllm_ascend_rotary_embedding
    \/ CustomHandler
    \/ Step
    \/ KernelComplete
    \/ CallInverse

Spec == Init /\ [][Next]_vars

----------------------------------------------------------------------------
(* What the claims speak of. *)

\* The preconditions of a call.
ValidInput ==
    /\ query.size1 % head_size = 0
    /\ key.size1 % head_size = 0
    /\ cos_sin_cache.size1 % 2 = 0
    /\ cos_sin_cache.size1 <= head_size
    /\ scalar_type \in FloatingTypes

Tokens == 0..(query.size0 - 1)
QHeads == 0..((query.size1 \div head_size) - 1)
KHeads == 0..((key.size1 \div head_size) - 1)
Half == cos_sin_cache.size1 \div 2
Pairs == 0..(Half - 1)

\* Element j of head h of token t, in a buffer whose rows are stride apart.
Slot(stride, t, h, j) == t * stride + h * head_size + j + 1

CosOf(t, i) == pre.cache[positions[t + 1] * cos_sin_cache.size1 + i + 1]
SinOf(t, i) == pre.cache[positions[t + 1] * cos_sin_cache.size1 + Half + i + 1]

\* The pair at in-head indices (a, b) holds the rotation of its old values.
PairRotated(now, before, stride, t, h, a, b, i) ==
    LET x1 == before[Slot(stride, t, h, a)]
        x2 == before[Slot(stride, t, h, b)]
    IN  /\ now[Slot(stride, t, h, a)] = x1 * CosOf(t, i) - x2 * SinOf(t, i)
        /\ now[Slot(stride, t, h, b)] = x2 * CosOf(t, i) + x1 * SinOf(t, i)

\* The transform of section 4.2 at flat index idx (from 0) of a buffer.
RefElem(before, stride, heads, idx) ==
    LET t == idx \div stride
        r == idx % stride
        h == r \div head_size
        j == r % head_size
    IN  IF r >= heads * head_size \/ j >= cos_sin_cache.size1
        THEN before[idx + 1]
        ELSE LET i == IF is_neox THEN j % Half ELSE j \div 2
                 a == IF is_neox THEN i ELSE 2 * i
                 b == IF is_neox THEN i + Half ELSE 2 * i + 1
                 x1 == before[Slot(stride, t, h, a)]
                 x2 == before[Slot(stride, t, h, b)]
             IN  IF j = a
                 THEN x1 * CosOf(t, i) - x2 * SinOf(t, i)
                 ELSE x2 * CosOf(t, i) + x1 * SinOf(t, i)

RefData(before, stride, heads) ==
    [k \in DOMAIN before |-> RefElem(before, stride, heads, k - 1)]

Transformed ==
    /\ query.data = RefData(pre.query, query.stride0, query.size1 \div head_size)
    /\ key.data = RefData(pre.key, key.stride0, key.size1 \div head_size)

Unchanged == query.data = pre.query /\ key.data = pre.key

\* Row t of a buffer: its size1 elements.
Row(data, tensor, t) == [j \in 1..tensor.size1 |-> data[t * tensor.stride0 + j]]

----------------------------------------------------------------------------
\* C3: when is_neox is true and the kernel has completed, for every token t,
\* every query head and every key head and every pair index i < rot_dim/2,
\* with cos = cache[position[t]][i] and sin = cache[position[t]][i + rot_dim/2],
\* the elements at in-head indices i and i + rot_dim/2 hold
\* x1*cos - x2*sin and x2*cos + x1*sin of the values (x1, x2) they held
\* before the call.
C3_NeoxRotation ==
    (ValidInput /\ is_neox /\ dev = "done") =>
        \A t \in Tokens, i \in Pairs :
            /\ \A h \in QHeads :
                  PairRotated(query.data, pre.query, query.stride0, t, h, i, i + Half, i)
            /\ \A h \in KHeads :
                  PairRotated(key.data, pre.key, key.stride0, t, h, i, i + Half, i)

\* A completed neox call with cos = 0, sin = 1 that took (1, 0) to (0, 1) in
\* one token and (0, 1) to (-1, 0) in another.
C3_Witness ==
    /\ ValidInput /\ is_neox /\ dev = "done" /\ call_no = 1
    /\ cos_sin_cache.size1 = 2
    /\ \E t, u \in Tokens :
          /\ CosOf(t, 0) = 0 /\ SinOf(t, 0) = 1
          /\ CosOf(u, 0) = 0 /\ SinOf(u, 0) = 1
          /\ pre.key[Slot(key.stride0, t, 0, 0)] = 1
          /\ pre.key[Slot(key.stride0, t, 0, 1)] = 0
          /\ key.data[Slot(key.stride0, t, 0, 0)] = 0
          /\ key.data[Slot(key.stride0, t, 0, 1)] = 1
          /\ pre.key[Slot(key.stride0, u, 0, 0)] = 0
          /\ pre.key[Slot(key.stride0, u, 0, 1)] = 1
          /\ key.data[Slot(key.stride0, u, 0, 0)] = -1
          /\ key.data[Slot(key.stride0, u, 0, 1)] = 0
          /\ query.data[Slot(query.stride0, t, 0, 0)]
                = 0 - pre.query[Slot(query.stride0, t, 0, 1)]

----------------------------------------------------------------------------
\* C2: in every state of a valid call, on either backend and in either style,
\* every element at in-head index j with rot_dim <= j < head_size of every
\* query head and key head of every token holds the value it held before the
\* call, and so do the padding elements between row width and row stride,
\* the positions sequence and the cos/sin cache.
C2_PassThrough ==
    ValidInput =>
        /\ \A t \in Tokens, j \in cos_sin_cache.size1..(head_size - 1) :
              /\ \A h \in QHeads :
                    query.data[Slot(query.stride0, t, h, j)]
                        = pre.query[Slot(query.stride0, t, h, j)]
              /\ \A h \in KHeads :
                    key.data[Slot(key.stride0, t, h, j)]
                        = pre.key[Slot(key.stride0, t, h, j)]
        /\ \A t \in Tokens :
              /\ \A j \in (query.size1 + 1)..query.stride0 :
                    query.data[t * query.stride0 + j] = pre.query[t * query.stride0 + j]
              /\ \A j \in (key.size1 + 1)..key.stride0 :
                    key.data[t * key.stride0 + j] = pre.key[t * key.stride0 + j]
        /\ cos_sin_cache.data = pre.cache
        /\ positions = pre.positions

\* A completed call with rot_dim < head_size and padded rows that changed the
\* rotated part of every token of query and key.
C2_Witness ==
    /\ ValidInput /\ dev = "done" /\ query.size0 >= 2
    /\ cos_sin_cache.size1 < head_size
    /\ query.stride0 > query.size1 /\ key.stride0 > key.size1
    /\ \A t \in Tokens :
          /\ query.data[Slot(query.stride0, t, 0, 0)] # pre.query[Slot(query.stride0, t, 0, 0)]
          /\ key.data[Slot(key.stride0, t, 0, 0)] # pre.key[Slot(key.stride0, t, 0, 0)]

----------------------------------------------------------------------------
\* Work items of token t that are still to be run.
Remaining(t) ==
    Cardinality({ um \in (DOMAIN units) \X (1..MaxItems) :
                    /\ um[2] <= Len(units[um[1]].todo)
                    /\ units[um[1]].todo[um[2]].tok = t })

ItemsPerToken == (Cardinality(QHeads) + Cardinality(KHeads)) * Half

RefRow(before, tensor, t) ==
    Row(RefData(before, tensor.stride0, tensor.size1 \div head_size), tensor, t)

CacheRow(t) ==
    [j \in 1..cos_sin_cache.size1 |->
        pre.cache[positions[t + 1] * cos_sin_cache.size1 + j]]

\* C5: at every moment of a valid call's kernel, the rows of a token none of
\* whose work has been stored are the input rows, and the rows of a token all
\* of whose work is done are the transform of that token's input rows by the
\* cache row of its position, whatever the other tokens' progress, contents
\* and positions; so two finished tokens with equal input rows and equal cache
\* rows have equal output rows.
C5_TokenLocal ==
    (ValidInput /\ dev \in {"running", "done"}) =>
        /\ \A t \in Tokens :
              /\ (Remaining(t) = ItemsPerToken) =>
                    /\ Row(query.data, query, t) = Row(pre.query, query, t)
                    /\ Row(key.data, key, t) = Row(pre.key, key, t)
              /\ (Remaining(t) = 0) =>
                    /\ Row(query.data, query, t) = RefRow(pre.query, query, t)
                    /\ Row(key.data, key, t) = RefRow(pre.key, key, t)
        /\ \A t, u \in Tokens :
              ( /\ Remaining(t) = 0 /\ Remaining(u) = 0
                /\ CacheRow(t) = CacheRow(u)
                /\ Row(pre.query, query, t) = Row(pre.query, query, u)
                /\ Row(pre.key, key, t) = Row(pre.key, key, u) )
              => /\ Row(query.data, query, t) = Row(query.data, query, u)
                 /\ Row(key.data, key, t) = Row(key.data, key, u)

\* Three tokens with two distinct position ids: a later one finished and
\* changed, an earlier one untouched.
C5_Witness ==
    /\ ValidInput /\ dev = "running" /\ query.size0 = 3
    /\ positions[1] # positions[2]
    /\ Remaining(0) = ItemsPerToken
    /\ Remaining(1) = 0
    /\ Row(query.data, query, 1) # Row(pre.query, query, 1)
    /\ Row(key.data, key, 1) # Row(pre.key, key, 1)
    /\ Row(query.data, query, 0) = Row(pre.query, query, 0)

----------------------------------------------------------------------------
\* C6: when a valid call whose cache rows hold rotations (cos, sin) in
\* {(1,0), (0,1), (-1,0), (0,-1)} has completed and a second call on the
\* result with the cache rows holding (cos, -sin) and the same positions has
\* completed, the query and key buffers hold their original contents.
C6_InverseLaw ==
    (ValidInput /\ call_no = 2 /\ dev = "done") =>
        /\ query.data = orig.query
        /\ key.data = orig.key

\* The second call has completed, and the first had changed both buffers.
C6_Witness ==
    /\ ValidInput /\ call_no = 2 /\ dev = "done"
    /\ pre.query # orig.query /\ pre.key # orig.key
    /\ query.data = orig.query /\ key.data = orig.key
    /\ cos_sin_cache.size1 = 4

----------------------------------------------------------------------------
\* The launched units' items, unit after unit, and in the opposite unit order.
RECURSIVE Flatten(_, _)
Flatten(progs, n) == IF n = 0 THEN <<>> ELSE Flatten(progs, n - 1) \o progs[n]

RECURSIVE FlattenRev(_, _)
FlattenRev(progs, n) == IF n = 0 THEN <<>> ELSE progs[n] \o FlattenRev(progs, n - 1)

\* One item run alone: load, then store.
ApplyItem(mem, it) ==
    LET x == mem[it.src][it.xs + 1]
        y == mem[it.src][it.ys + 1]
        c == pre.cache[it.c + 1]
        sn == pre.cache[it.s + 1]
    IN  [mem EXCEPT ![it.dst] =
            [@ EXCEPT ![it.xd + 1] = x * c - y * sn, ![it.yd + 1] = y * c + x * sn]]

RECURSIVE RunSeq(_, _)
RunSeq(mem, items) ==
    IF items = <<>> THEN mem ELSE RunSeq(ApplyItem(mem, Head(items)), Tail(items))

Reads(it) == {<<it.src, it.xs>>, <<it.src, it.ys>>}
Writes(it) == {<<it.dst, it.xd>>, <<it.dst, it.yd>>}

\* C7: in a valid call the work items of the launched kernel (one per token,
\* head and rotation pair) stay inside the buffers and never alias: no slot
\* written by one item is read or written by another; and when the kernel has
\* completed, whatever the interleaving of the units' loads and stores, query
\* and key equal the result of running the units one after another, in unit
\* order and in the opposite order.
C7_NoAlias ==
    (ValidInput /\ dev \in {"running", "done"}) =>
        LET progs == Programs(kargs, backend)
            items == Flatten(progs, Len(progs))
            mem0 == [query |-> pre.query, key |-> pre.key]
            mem == [query |-> query.data, key |-> key.data]
        IN  /\ \A a \in DOMAIN items :
                  /\ InBounds(pre.query, items[a].xs) \/ items[a].src # "query"
                  /\ InBounds(pre.query, items[a].ys) \/ items[a].src # "query"
                  /\ InBounds(pre.key, items[a].xs) \/ items[a].src # "key"
                  /\ InBounds(pre.key, items[a].ys) \/ items[a].src # "key"
                  /\ Reads(items[a]) = Writes(items[a])
            /\ \A a, b \in DOMAIN items :
                  (a # b) =>
                      Writes(items[a]) \cap (Reads(items[b]) \cup Writes(items[b])) = {}
            /\ (dev = "done") =>
                  /\ mem = RunSeq(mem0, items)
                  /\ mem = RunSeq(mem0, FlattenRev(progs, Len(progs)))

\* Two units have both loaded and not yet stored, after a third has stored.
C7_Witness ==
    /\ ValidInput /\ dev = "running"
    /\ \E u, v \in DOMAIN units :
          /\ u # v
          /\ units[u].todo # <<>> /\ units[u].ph = "store"
          /\ units[v].todo # <<>> /\ units[v].ph = "store"
    /\ query.data # pre.query

----------------------------------------------------------------------------
\* C10: on the NPU backend, with aivNum >= 1 cores, loop_cnt is the ceiling of
\* num_tokens / aivNum: loop_cnt * aivNum >= num_tokens, and
\* num_tokens > (loop_cnt - 1) * aivNum when num_tokens > 0; it never exceeds
\* num_tokens (nothing wraps); every token below num_tokens falls in exactly
\* one (core, iteration) slot and is worked on by exactly one core, no item
\* belongs to a token index >= num_tokens, and the tokens worked on are those
\* of the generic backend's grid.
C10_Partition ==
    (backend = "npu" /\ dev \in {"running", "done"}) =>
        LET n == kargs.num_tokens
            a == kargs.aivNum
            l == kargs.loop_cnt
            progs == Programs(kargs, backend)
            per == (kargs.num_heads + kargs.num_kv_heads) * (kargs.rot_dim \div 2)
            toks(c) == { SlotToken(kargs, c - 1, j) : j \in CoreSlots(kargs, c - 1) }
        IN  /\ a >= 1
            /\ n = query.size0
            /\ l * a >= n
            /\ (n > 0) => (n > (l - 1) * a)
            /\ l <= n
            /\ \A t \in 0..(n - 1) :
                  /\ Cardinality({ cj \in (0..(a - 1)) \X (0..(l - 1)) :
                                     SlotToken(kargs, cj[1], cj[2]) = t }) = 1
                  /\ Cardinality({ c \in DOMAIN progs : t \in toks(c) }) = 1
                  /\ Cardinality({ cm \in (DOMAIN progs) \X (1..(n * per)) :
                                     /\ cm[2] <= Len(progs[cm[1]])
                                     /\ progs[cm[1]][cm[2]].tok = t }) = per
            /\ \A c \in DOMAIN progs : \A m \in DOMAIN progs[c] :
                  progs[c][m].tok \in 0..(n - 1)
            /\ UNION { toks(c) : c \in DOMAIN progs } = 0..(Grid - 1)

\* Three tokens on two cores: two iterations, the last slot of the second
\* core beyond the tokens.
C10_Witness ==
    /\ backend = "npu" /\ dev = "running"
    /\ kargs.num_tokens = 3 /\ kargs.aivNum = 2 /\ kargs.loop_cnt = 2
    /\ Len(units) = 2
    /\ SlotToken(kargs, 1, 1) = 3

----------------------------------------------------------------------------
\* The call and everything it put on the device have come to an end.
Final ==
    /\ pc \in {"returned", "failed"}
    /\ dev \in {"idle", "done", "rejected", "crashed", "nolaunch", "fault"}

\* The call raised, or the handler did.
Failed == pc = "failed" \/ dev \in {"rejected", "crashed", "fault"}

\* C1: a call whose inputs violate a precondition fails before anything is
\* put on the device queue, and leaves query and key as they were.
C1_RejectedBeforeSubmission ==
    (~ValidInput /\ query.size0 >= 1 /\ pc # "idle") =>
        /\ pc = "failed"
        /\ submitted = 0
        /\ dev = "idle"
        /\ Unchanged

\* C8: a valid call that has come to an end has either transformed every
\* token's query and key rows, or failed with query and key unmodified.
C8_AllOrNothing ==
    (ValidInput /\ Final) =>
        \/ Transformed
        \/ Failed /\ Unchanged

\* C9: the call returns once its work is enqueued, enqueues it exactly once,
\* and the enqueued work of a valid call cannot end otherwise than complete,
\* with query and key holding the transformed values.
C9_EnqueuedRunsToCompletion ==
    /\ submitted <= 1
    /\ (pc = "returned" /\ dev # "nolaunch") => (submitted = 1)
    /\ (ValidInput /\ query.size0 >= 1 /\ submitted = 1 /\ dev \notin {"queued", "running"}) =>
          (dev = "done" /\ Transformed)

====
